---- MODULE Spec2Model ----
(***************************************************************************)
(* A model of the TEX container codec of re-tex: the header codec          *)
(* (TexHeader), the fixed-width tables (MipEntry, CompressionInfo), the     *)
(* end-to-end read / validate / write pipeline (Tex), the in-place         *)
(* "decompress all" operation and the tile-compression container           *)
(* (TileStream, GDfDecompressor).  Files and payloads are sequences of     *)
(* bytes; every field is decoded from and encoded to little-endian bytes   *)
(* the way the code does it.                                               *)
(*                                                                         *)
(* Unsigned values are kept below 2^31 by the inputs the model draws, so    *)
(* the decoders below never leave the model checker's integers.            *)
(***************************************************************************)
EXTENDS Integers, Sequences, FiniteSets, TLC

VARIABLES
    build,      \* "debug" (overflow checks on) or "release" (wrapping arithmetic)
    oob,        \* what an out-of-bounds raw-pointer access does: "fault" or "zero"
    input,      \* the bytes handed to the reader
    pc,         \* which operation ran last
    hres,       \* result of TexHeader::from_reader(input)
    hbytes,     \* result of TexHeader::as_bytes on the parsed header
    res,        \* result of Tex::from_reader(input)
    tex,        \* the Tex object the caller holds (after from_reader / batch_decompress)
    bres,       \* result of Tex::batch_decompress
    out,        \* result of Tex::as_bytes
    dres,       \* result of GDfDecompressor::decompress(input)
    res2,       \* result of Tex::from_reader on the bytes as_bytes wrote
    dds,        \* result of Tex::to_dds, with the mip count it was asked for
    hand        \* whether the caller has written to the Tex through its public fields

vars ==
    <<build, oob, input, pc, hres, hbytes, res, tex, bres, out, dres, res2, dds, hand>>

----------------------------------------------------------------------------
(* Little-endian field codecs (byteorder::ReadBytesExt / WriteBytesExt).   *)
(* b is the whole buffer, p the 0-based cursor position.                   *)

read_u8(b, p) == b[p + 1]

read_u16(b, p) == b[p + 1] + 256 * b[p + 2]

read_u32(b, p) == b[p + 1] + 256 * b[p + 2] + 65536 * b[p + 3] + 16777216 * b[p + 4]

read_i32(b, p) ==
    b[p + 1] + 256 * b[p + 2] + 65536 * b[p + 3]
        + 16777216 * (IF b[p + 4] >= 128 THEN b[p + 4] - 256 ELSE b[p + 4])

write_u8(v) == <<v>>

write_u16(v) == <<v % 256, (v \div 256) % 256>>

write_u32(v) == <<v % 256, (v \div 256) % 256, (v \div 65536) % 256, (v \div 16777216) % 256>>

\* An i32 is written as its two's-complement bytes.
write_i32(v) ==
    LET top == v \div 16777216        \* floor division: -128 .. 127
    IN  <<v % 256, (v \div 256) % 256, (v \div 65536) % 256,
          IF top < 0 THEN top + 256 ELSE top>>

\* read_exact succeeds iff n more bytes are left at position p.
Have(b, p, n) == p + n <= Len(b)

Slice(b, from, to) == SubSeq(b, from + 1, to)    \* b[from..to] of the code

Max(a, b) == IF a >= b THEN a ELSE b

----------------------------------------------------------------------------
(* FormatCatalog: the TexFormat enum, variant name and discriminant.       *)

TexFormat == {
    <<"A8Unorm", 65>>, <<"Astc10x10Typeless", 1058>>, <<"Astc10x10Unorm", 1059>>,
    <<"Astc10x10UnormSrgb", 1060>>, <<"Astc10x5Typeless", 1049>>,
    <<"Astc10x5Unorm", 1050>>, <<"Astc10x5UnormSrgb", 1051>>,
    <<"Astc10x6Typeless", 1052>>, <<"Astc10x6Unorm", 1053>>,
    <<"Astc10x6UnormSrgb", 1054>>, <<"Astc10x8Typeless", 1055>>,
    <<"Astc10x8Unorm", 1056>>, <<"Astc10x8UnormSrgb", 1057>>,
    <<"Astc12x10Typeless", 1061>>, <<"Astc12x10Unorm", 1062>>,
    <<"Astc12x10UnormSrgb", 1063>>, <<"Astc12x12Typeless", 1064>>,
    <<"Astc12x12Unorm", 1065>>, <<"Astc12x12UnormSrgb", 1066>>,
    <<"Astc4x4Typeless", 1025>>, <<"Astc4x4Unorm", 1026>>, <<"Astc4x4UnormSrgb", 1027>>,
    <<"Astc5x4Typeless", 1028>>, <<"Astc5x4Unorm", 1029>>, <<"Astc5x4UnormSrgb", 1030>>,
    <<"Astc5x5Typeless", 1031>>, <<"Astc5x5Unorm", 1032>>, <<"Astc5x5UnormSrgb", 1033>>,
    <<"Astc6x5Typeless", 1034>>, <<"Astc6x5Unorm", 1035>>, <<"Astc6x5UnormSrgb", 1036>>,
    <<"Astc6x6Typeless", 1037>>, <<"Astc6x6Unorm", 1038>>, <<"Astc6x6UnormSrgb", 1039>>,
    <<"Astc8x5Typeless", 1040>>, <<"Astc8x5Unorm", 1041>>, <<"Astc8x5UnormSrgb", 1042>>,
    <<"Astc8x6Typeless", 1043>>, <<"Astc8x6Unorm", 1044>>, <<"Astc8x6UnormSrgb", 1045>>,
    <<"Astc8x8Typeless", 1046>>, <<"Astc8x8Unorm", 1047>>, <<"Astc8x8UnormSrgb", 1048>>,
    <<"B5G5R5A1Unorm", 86>>, <<"B5G6R5Unorm", 85>>, <<"B8G8R8A8Typeless", 90>>,
    <<"B8G8R8A8Unorm", 87>>, <<"B8G8R8A8UnormSrgb", 91>>, <<"B8G8R8X8Typeless", 92>>,
    <<"B8G8R8X8Unorm", 88>>, <<"B8G8R8X8UnormSrgb", 93>>, <<"Bc1Typeless", 70>>,
    <<"Bc1Unorm", 71>>, <<"Bc1UnormSrgb", 72>>, <<"Bc2Typeless", 73>>,
    <<"Bc2Unorm", 74>>, <<"Bc2UnormSrgb", 75>>, <<"Bc3Typeless", 76>>,
    <<"Bc3Unorm", 77>>, <<"Bc3UnormSrgb", 78>>, <<"Bc4Typeless", 79>>,
    <<"Bc4Unorm", 80>>, <<"Bc4Snorm", 81>>, <<"Bc5Typeless", 82>>, <<"Bc5Unorm", 83>>,
    <<"Bc5Snorm", 84>>, <<"Bc6hTypeless", 94>>, <<"Bc6hUF16", 95>>, <<"Bc6hSF16", 96>>,
    <<"Bc7Typeless", 97>>, <<"Bc7Unorm", 98>>, <<"Bc7UnormSrgb", 99>>,
    <<"D16Unorm", 55>>, <<"D24UnormS8Uint", 45>>, <<"D32Float", 40>>,
    <<"D32FloatS8X24Uint", 20>>, <<"ForceUint", 2147483647>>, <<"G8R8G8B8Unorm", 69>>,
    <<"R10G10B10A2Typeless", 23>>, <<"R10G10B10A2Uint", 25>>, <<"R10G10B10A2Unorm", 24>>,
    <<"R10G10B10xrBiasA2Unorm", 89>>, <<"R11G11B10Float", 26>>, <<"R16Float", 54>>,
    <<"R16G16B16A16Float", 10>>, <<"R16G16B16A16Sint", 14>>, <<"R16G16B16A16Snorm", 13>>,
    <<"R16G16B16A16Typeless", 9>>, <<"R16G16B16A16Uint", 12>>,
    <<"R16G16B16A16Unorm", 11>>, <<"R16G16Float", 34>>, <<"R16G16Sint", 38>>,
    <<"R16G16Snorm", 37>>, <<"R16G16Typeless", 33>>, <<"R16G16Uint", 36>>,
    <<"R16G16Unorm", 35>>, <<"R16Sint", 59>>, <<"R16Snorm", 58>>, <<"R16Typeless", 53>>,
    <<"R16Uint", 57>>, <<"R16Unorm", 56>>, <<"R1Unorm", 66>>, <<"R24G8Typeless", 44>>,
    <<"R24UnormX8Typeless", 46>>, <<"R32Float", 41>>, <<"R32FloatX8X24Typeless", 21>>,
    <<"R32G32B32A32Float", 2>>, <<"R32G32B32A32Sint", 4>>, <<"R32G32B32A32Typeless", 1>>,
    <<"R32G32B32A32Uint", 3>>, <<"R32G32B32Float", 6>>, <<"R32G32B32Sint", 8>>,
    <<"R32G32B32Typeless", 5>>, <<"R32G32B32Uint", 7>>, <<"R32G32Float", 16>>,
    <<"R32G32Sint", 18>>, <<"R32G32Typeless", 15>>, <<"R32G32Uint", 17>>,
    <<"R32G8X24Typeless", 19>>, <<"R32Sint", 43>>, <<"R32Typeless", 39>>,
    <<"R32Uint", 42>>, <<"R8G8B8A8Sint", 32>>, <<"R8G8B8A8Snorm", 31>>,
    <<"R8G8B8A8Typeless", 27>>, <<"R8G8B8A8Uint", 30>>, <<"R8G8B8A8Unorm", 28>>,
    <<"R8G8B8A8UnormSrgb", 29>>, <<"R8G8B8G8Unorm", 68>>, <<"R8G8Sint", 52>>,
    <<"R8G8Snorm", 51>>, <<"R8G8Typeless", 48>>, <<"R8G8Uint", 50>>, <<"R8G8Unorm", 49>>,
    <<"R8Sint", 64>>, <<"R8Snorm", 63>>, <<"R8Typeless", 60>>, <<"R8Uint", 62>>,
    <<"R8Unorm", 61>>, <<"R9G9B9E5Sharedexp", 67>>, <<"ViaExtension", 1024>>,
    <<"X24TypelessG8Uint", 47>>, <<"X32TypelessG8X24Uint", 22>>
    }

TexFormatCodes == {e[2] : e \in TexFormat}

\* A variant that lets code 0 through as the default format.
TexFormat_from_repr_zero_default(code) ==
    IF code \in TexFormatCodes \cup {0}
    THEN [some |-> TRUE,
          v |-> IF code = 0 THEN "Bc7Unorm" ELSE (CHOOSE e \in TexFormat : e[2] = code)[1]]
    ELSE [some |-> FALSE, v |-> ""]

\* strum's from_repr: the variant with this discriminant, if any.
TexFormat_from_repr(code) ==
    IF code \in TexFormatCodes
    THEN [some |-> TRUE,  v |-> (CHOOSE e \in TexFormat : e[2] = code)[1]]
    ELSE [some |-> FALSE, v |-> ""]

\* `format as u32`
TexFormat_as_u32(name) == (CHOOSE e \in TexFormat : e[1] = name)[2]

----------------------------------------------------------------------------
(* Error values (error.rs, gdf.rs).                                        *)

NoError == [tag |-> "none", code |-> 0, msg |-> ""]

Error_IO == [tag |-> "IO", code |-> 0, msg |-> "UnexpectedEof"]

Error_NotTexFile == [tag |-> "NotTexFile", code |-> 0, msg |-> ""]

Error_UnsupportedTexFormat(code) == [tag |-> "UnsupportedTexFormat", code |-> code, msg |-> ""]

Error_Unimplemented == [tag |-> "Unimplemented", code |-> 0, msg |-> "Swizzle not implemented yet."]

Error_Internal(msg) == [tag |-> "Internal", code |-> 0, msg |-> msg]

\* error::Error::GDeflate wrapping a gdf::Error ("BadData", "InsufficientSpace", "IO")
Error_GDeflate(inner) == [tag |-> "GDeflate", code |-> 0, msg |-> inner]

\* error::Error::Dds wrapping the container library's error
Error_Dds == [tag |-> "Dds", code |-> 0, msg |-> "UnsupportedFormat"]

ErrorTags ==
    {"IO", "NotTexFile", "UnsupportedTexFormat", "Unimplemented", "Internal", "GDeflate",
     "Dds"}

----------------------------------------------------------------------------
(* TexHeader                                                               *)

MAGIC == <<84, 69, 88, 0>>

MipEntry_SIZE == 16

CompressionInfo_SIZE == 8

LegacyVersion == 190820018

TexHeader_default ==
    [magic |-> <<0, 0, 0, 0>>, version |-> 0, width |-> 0, height |-> 0, depth |-> 0,
     mipmap_count |-> 0, tex_count |-> 0, mipmap_header_size |-> 0,
     format |-> "Bc7Unorm", swizzle_control |-> 0, cubemap_marker |-> 0,
     unkn04 |-> 0, unkn05 |-> 0, null0 |-> 0,
     swizzle_height_depth |-> 0, swizzle_width |-> 0, null1 |-> 0, seven |-> 0, one |-> 0]

HdrOk(h, p) == [kind |-> "ok", err |-> NoError, pos |-> p, hdr |-> h]

HdrErr(e, p) == [kind |-> "err", err |-> e, pos |-> p, hdr |-> TexHeader_default]

\* A variant that does not single out the legacy version number.
HasHeaderSize_above_11(version) == version > 11

\* version > 11 && version != 190820018
HasHeaderSize(version) == version > 11 /\ version # LegacyVersion

\* version > 27 && version != 190820018
HasSwizzleData(version) == version > 27 /\ version # LegacyVersion

\* A variant that compares the three letters and not the terminating byte.
MagicMatchesLetters(magic) == SubSeq(magic, 1, 3) = SubSeq(MAGIC, 1, 3)

\* this.magic != Self::MAGIC, negated
MagicMatches(magic) == magic = MAGIC

\* A variant that never rejects a header.
SwizzleUnimplementedNever(h) == FALSE

\* this.swizzle_control == 1
SwizzleUnimplemented(h) == h.swizzle_control = 1

\* The fields read after the format code: swizzle_control .. null0, then the
\* optional swizzle data, then the swizzle_control check.
TexHeader_read_tail(b, h) ==
    IF ~Have(b, 20, 12) THEN HdrErr(Error_IO, Len(b))
    ELSE
    LET h1 == [h EXCEPT !.swizzle_control = read_i32(b, 20),
                        !.cubemap_marker = read_u32(b, 24),
                        !.unkn04 = read_u8(b, 28),
                        !.unkn05 = read_u8(b, 29),
                        !.null0 = read_u16(b, 30)]
    IN  IF HasSwizzleData(h1.version)
        THEN IF ~Have(b, 32, 8) THEN HdrErr(Error_IO, Len(b))
             ELSE LET h2 == [h1 EXCEPT !.swizzle_height_depth = read_u8(b, 32),
                                       !.swizzle_width = read_u8(b, 33),
                                       !.null1 = read_u16(b, 34),
                                       !.seven = read_u16(b, 36),
                                       !.one = read_u16(b, 38)]
                  IN  IF SwizzleUnimplemented(h2) THEN HdrErr(Error_Unimplemented, 40)
                      ELSE HdrOk(h2, 40)
        ELSE IF SwizzleUnimplemented(h1) THEN HdrErr(Error_Unimplemented, 32)
             ELSE HdrOk(h1, 32)

\* The two count bytes at offset 14, laid out by version.
TexHeader_read_counts(b, h) ==
    IF HasHeaderSize(h.version)
    THEN [h EXCEPT !.tex_count = read_u8(b, 14),
                   !.mipmap_header_size = read_u8(b, 15),
                   !.mipmap_count = read_u8(b, 15) \div MipEntry_SIZE]
    ELSE [h EXCEPT !.mipmap_count = read_u8(b, 14),
                   !.tex_count = read_u8(b, 15)]

TexHeader_from_reader(b) ==
    IF ~Have(b, 0, 4) THEN HdrErr(Error_IO, Len(b))
    ELSE
    LET h0 == [TexHeader_default EXCEPT !.magic = Slice(b, 0, 4)]
    IN  IF ~MagicMatches(h0.magic) THEN HdrErr(Error_NotTexFile, 4)
        ELSE IF ~Have(b, 4, 16) THEN HdrErr(Error_IO, Len(b))
        ELSE
        LET h1 == [h0 EXCEPT !.version = read_u32(b, 4),
                             !.width = read_u16(b, 8),
                             !.height = read_u16(b, 10),
                             !.depth = read_u16(b, 12)]
            h2 == TexHeader_read_counts(b, h1)
            format_var == read_u32(b, 16)
            format == TexFormat_from_repr(format_var)
        IN  IF ~format.some THEN HdrErr(Error_UnsupportedTexFormat(format_var), 20)
            ELSE TexHeader_read_tail(b, [h2 EXCEPT !.format = format.v])

\* A variant that writes the size of mipmap_count entries for mipmap_header_size.
TexHeader_write_counts_derived(h) ==
    IF HasHeaderSize(h.version)
    THEN write_u8(h.tex_count) \o write_u8(MipEntry_SIZE * h.mipmap_count)
    ELSE write_u8(h.mipmap_count) \o write_u8(h.tex_count)

\* The two count bytes as written, laid out by version.
TexHeader_write_counts(h) ==
    IF HasHeaderSize(h.version)
    THEN write_u8(h.tex_count) \o write_u8(h.mipmap_header_size)
    ELSE write_u8(h.mipmap_count) \o write_u8(h.tex_count)

TexHeader_as_bytes(h) ==
    MAGIC \o write_u32(h.version) \o write_u16(h.width) \o write_u16(h.height)
        \o write_u16(h.depth)
        \o TexHeader_write_counts(h)
        \o write_u32(TexFormat_as_u32(h.format)) \o write_i32(h.swizzle_control)
        \o write_u32(h.cubemap_marker) \o write_u8(h.unkn04) \o write_u8(h.unkn05)
        \o write_u16(h.null0)
        \o (IF HasSwizzleData(h.version)
            THEN write_u8(h.swizzle_height_depth) \o write_u8(h.swizzle_width)
                     \o write_u16(h.null1) \o write_u16(h.seven) \o write_u16(h.one)
            ELSE <<>>)

----------------------------------------------------------------------------
(* MipTable: MipEntry (16 bytes) and CompressionInfo (8 bytes).  The code  *)
(* reinterprets the bytes as a #[repr(C)] struct; on the little-endian     *)
(* targets the crate is built for, that is little-endian field decoding.   *)
(* The u64 offset is kept as its two 32-bit halves.                        *)

MipEntry_from_reader(b, p) ==
    [offset |-> <<read_u32(b, p), read_u32(b, p + 4)>>,
     scanline_length |-> read_u32(b, p + 8),
     uncompressed_size |-> read_u32(b, p + 12)]

MipEntry_as_bytes(e) ==
    write_u32(e.offset[1]) \o write_u32(e.offset[2])
        \o write_u32(e.scanline_length) \o write_u32(e.uncompressed_size)

CompressionInfo_from_reader(b, p) ==
    [compressed_size |-> read_u32(b, p), compressed_offset |-> read_u32(b, p + 4)]

CompressionInfo_as_bytes(c) ==
    write_u32(c.compressed_size) \o write_u32(c.compressed_offset)

----------------------------------------------------------------------------
(* TileCompressionContainer (gdf.rs)                                       *)

K_GDEFLATE_ID == 4

KDEFAULT_TILE_SIZE == 65536

\* u8 XOR 0xFF
XorFF(v) == 255 - v

\* macros::BitField::bit_split((2, 18, 12)) of the packed flags word: the
\* fields are taken from the least significant bit up, as the tile-stream
\* format packs them (tileSizeIdx : 2, lastTileSize : 18, reserv1 : 12).
bit_split(flags) ==
    [tile_size_idx |-> flags % 4,
     last_tile_size |-> (flags \div 4) % 262144,
     reserv1 |-> flags \div 1048576]

NoTileStream ==
    [id |-> 0, magic |-> 0, num_tiles |-> 0, tile_size_idx |-> 0, last_tile_size |-> 0,
     reserv1 |-> 0]

\* TileStream::from: the 8-byte framing header.
TileStream_from(data) ==
    IF ~Have(data, 0, 8) THEN [kind |-> "err", ts |-> NoTileStream]
    ELSE LET f == bit_split(read_u32(data, 4))
         IN  [kind |-> "ok",
              ts |-> [id |-> read_u8(data, 0), magic |-> read_u8(data, 1),
                      num_tiles |-> read_u16(data, 2),
                      tile_size_idx |-> f.tile_size_idx,
                      last_tile_size |-> f.last_tile_size,
                      reserv1 |-> f.reserv1]]

\* A variant that checks the self-checking pair and not the id constant.
TileStream_is_valid_pair_only(ts) == ts.id = XorFF(ts.magic)

TileStream_is_valid(ts) == ts.id = XorFF(ts.magic) /\ ts.id = K_GDEFLATE_ID

\* A variant that takes every tile to be full.
TileStream_get_uncompressed_size_full_tiles(ts, bld) ==
    [kind |-> "ok", v |-> ts.num_tiles * KDEFAULT_TILE_SIZE]

\* TileStream::get_uncompressed_size, in usize arithmetic.  A subtraction that
\* underflows panics in a debug build and wraps in a release build: with
\* last_tile_size > 65536 the two wrapped subtractions cancel; with
\* num_tiles = 0 and 0 < last_tile_size < 65536 the result wraps to nearly 2^64.
TileStream_get_uncompressed_size(ts, bld) ==
    LET total == ts.num_tiles * KDEFAULT_TILE_SIZE
        cut  == IF ts.last_tile_size = 0 THEN 0
                ELSE KDEFAULT_TILE_SIZE - ts.last_tile_size
    IN  IF cut >= 0 /\ total - cut >= 0 THEN [kind |-> "ok", v |-> total - cut]
        ELSE IF bld = "debug" THEN [kind |-> "panic", v |-> 0]
        ELSE IF total - cut >= 0 THEN [kind |-> "ok", v |-> total - cut]
        ELSE [kind |-> "huge", v |-> 0]

(* The external entropy decoder, sys::libdeflate_gdeflate_decompress(page,  *)
(* out, capacity): a stand-in codec with the decoder's interface.  The     *)
(* first byte of a tile selects what the tile is:                          *)
(*   0  stored: the rest of the tile is the output;                        *)
(*   1  fill: <<1, v, n0, n1, n2>> is n (24-bit little-endian) bytes v;    *)
(*   2  a tile the decoder rejects as malformed;                           *)
(*   3  a tile for which the decoder reports a code outside its contract.  *)
(* Output longer than the capacity is INSUFFICIENT_SPACE.                  *)

Decoded(status, o) == [status |-> status, out |-> o]

libdeflate_gdeflate_decompress(data, capacity) ==
    IF Len(data) = 0 THEN Decoded("BAD_DATA", <<>>)
    ELSE IF data[1] = 0
    THEN IF Len(data) - 1 > capacity THEN Decoded("INSUFFICIENT_SPACE", <<>>)
         ELSE Decoded("SUCCESS", Tail(data))
    ELSE IF data[1] = 1
    THEN IF Len(data) < 5 THEN Decoded("BAD_DATA", <<>>)
         ELSE LET n == data[3] + 256 * data[4] + 65536 * data[5]
              IN  IF n > capacity THEN Decoded("INSUFFICIENT_SPACE", <<>>)
                  ELSE Decoded("SUCCESS", [k \in 1..n |-> data[2]])
    ELSE IF data[1] = 3 THEN Decoded("OTHER", <<>>)
    ELSE Decoded("BAD_DATA", <<>>)

\* The longest page the model materialises when a page runs past the payload.
PageCap == KDEFAULT_TILE_SIZE + 2

Min(a, b) == IF a <= b THEN a ELSE b

\* A byte read through a raw pointer at 1-based index k: past the end of the
\* buffer it reads as zero (when the access does not fault).
PeekByte(b, k) == IF k <= Len(b) THEN b[k] ELSE 0

\* *tile_offsets.add(k): the u32 at byte 8 + 4k of the payload.
tile_offsets(in_data, k) ==
    LET p == 8 + 4 * k
    IN  [inb |-> Have(in_data, p, 4),
         v |-> PeekByte(in_data, p + 1) + 256 * PeekByte(in_data, p + 2)
                 + 65536 * PeekByte(in_data, p + 3) + 16777216 * PeekByte(in_data, p + 4)]

\* The compressed page of a tile: nbytes bytes from base + tile_offset.
InPage(in_data, start, nbytes) ==
    [inb |-> start + nbytes <= Len(in_data),
     data |-> [k \in 1..Min(nbytes, PageCap) |-> PeekByte(in_data, start + k)]]

\* out_data with bytes written at output_offset; what lands past the end of
\* the buffer is not part of it.
WriteAt(out_data, output_offset, bytes) ==
    LET room == Len(out_data) - output_offset
        n == Min(Len(bytes), room)
    IN  SubSeq(out_data, 1, output_offset) \o SubSeq(bytes, 1, n)
            \o SubSeq(out_data, output_offset + n + 1, Len(out_data))

\* A variant that writes every tile at the start of the buffer.
TileOutputOffset_start(tile_index) == 0

\* output_offset = tile_index as usize * KDEFAULT_TILE_SIZE
TileOutputOffset(tile_index) == tile_index * KDEFAULT_TILE_SIZE

DecOk(ts, data, calls, reads) ==
    [kind |-> "ok", err |-> "", ts |-> ts, data |-> data, calls |-> calls, reads |-> reads]

DecFail(ts, kind, err, calls, reads) ==
    [kind |-> kind, err |-> err, ts |-> ts, data |-> <<>>, calls |-> calls, reads |-> reads]

\* One pass of the tile loop for tile_index, then the rest of the loop.
\* calls logs every decoder invocation, reads every offset-table slot read.
RECURSIVE DecompressTiles(_, _, _, _, _, _, _, _)
DecompressTiles(in_data, ts, tile_index, out_data, calls, reads, bld, ob) ==
    IF tile_index >= ts.num_tiles THEN DecOk(ts, out_data, calls, reads)
    ELSE
    LET base == 8 + 4 * ts.num_tiles
        last == ~(tile_index < ts.num_tiles - 1)
        t_this == tile_offsets(in_data, tile_index)
        t_next == tile_offsets(in_data, IF last THEN 0 ELSE tile_index + 1)
        slots == (IF tile_index > 0 THEN <<tile_index>> ELSE <<>>)
                    \o <<IF last THEN 0 ELSE tile_index + 1>>
        reads1 == reads \o slots
        slots_inb == (tile_index > 0 => t_this.inb) /\ t_next.inb
        tile_offset == IF tile_index > 0 THEN t_this.v ELSE 0
        diff == IF last THEN t_next.v ELSE t_next.v - tile_offset
        wrapped == diff < 0                       \* u32 subtraction underflow
        \* a wrapped size is far past the payload: the page is cut at PageCap
        data_size == IF wrapped THEN PageCap ELSE diff
        page == InPage(in_data, base + tile_offset, data_size)
        page_inb == page.inb /\ ~wrapped
        output_offset == TileOutputOffset(tile_index)
        call == [tile |-> tile_index, start |-> base + tile_offset, nbytes |-> data_size,
                 output_offset |-> output_offset, capacity |-> KDEFAULT_TILE_SIZE]
        calls1 == Append(calls, call)
        r == libdeflate_gdeflate_decompress(page.data, KDEFAULT_TILE_SIZE)
    IN  IF ~slots_inb /\ ob = "fault" THEN DecFail(ts, "fault", "", calls, reads1)
        ELSE IF wrapped /\ bld = "debug"
        THEN DecFail(ts, "panic", "attempt to subtract with overflow", calls, reads1)
        ELSE IF ~page_inb /\ ob = "fault" THEN DecFail(ts, "fault", "", calls1, reads1)
        ELSE IF r.status = "BAD_DATA" THEN DecFail(ts, "err", "BadData", calls1, reads1)
        ELSE IF r.status = "INSUFFICIENT_SPACE"
        THEN DecFail(ts, "err", "InsufficientSpace", calls1, reads1)
        ELSE IF r.status = "OTHER"
        THEN DecFail(ts, "panic", "libdeflate_gdeflate_decompress returned an unknown error type",
                     calls1, reads1)
        ELSE IF output_offset + Len(r.out) > Len(out_data) /\ ob = "fault"
        THEN DecFail(ts, "fault", "", calls1, reads1)
        ELSE DecompressTiles(in_data, ts, tile_index + 1,
                             WriteAt(out_data, output_offset, r.out),
                             calls1, reads1, bld, ob)

\* GDfDecompressor::decompress.  kind is "ok" (data is the buffer returned),
\* "err" (err names the DecompressionError, or "IO"), "panic" (the process
\* unwinds) or "fault" (an out-of-bounds access crashed it).
GDfDecompressor_decompress(in_data, bld, ob) ==
    LET hd == TileStream_from(in_data)
        size == TileStream_get_uncompressed_size(hd.ts, bld)
    IN  IF hd.kind = "err" THEN DecFail(hd.ts, "err", "IO", <<>>, <<>>)
        ELSE IF ~TileStream_is_valid(hd.ts) THEN DecFail(hd.ts, "err", "BadData", <<>>, <<>>)
        ELSE IF size.kind = "panic"
        THEN DecFail(hd.ts, "panic", "attempt to subtract with overflow", <<>>, <<>>)
        ELSE IF size.kind = "huge"     \* vec![0u8; n] with n above isize::MAX
        THEN DecFail(hd.ts, "panic", "capacity overflow", <<>>, <<>>)
        ELSE DecompressTiles(in_data, hd.ts, 0, [k \in 1..size.v |-> 0], <<>>, <<>>, bld, ob)

----------------------------------------------------------------------------
(* MipData and Tex (tex.rs)                                                *)

\* MipData::new: is_gdeflate is sniffed from the first two bytes.
MipData_new(entry, compression_info, texture_data) ==
    [entry |-> entry, compression_info |-> compression_info,
     texture_data |-> texture_data,
     is_gdeflate |-> Len(texture_data) >= 2 /\ Slice(texture_data, 0, 2) = <<4, 251>>]

\* MipData::uncompressed_data(None): the decompressed payload of a
\* tile-compressed mip, the stored bytes of a raw one.
MipData_uncompressed_data(mip_data, bld, ob) ==
    IF mip_data.is_gdeflate
    THEN GDfDecompressor_decompress(mip_data.texture_data, bld, ob)
    ELSE DecOk(NoTileStream, mip_data.texture_data, <<>>, <<>>)

NoTex == [header |-> TexHeader_default, mip_datas |-> <<>>]

\* Outcomes of Tex::from_reader: "ok" with the Tex, "err" with the Error,
\* "panic" (the call unwinds) or "fault" (an out-of-bounds access crashed it).
\* padded records whether the zero-padding branch of the slicing ran.
Panic(msg) == [tag |-> "panic", code |-> 0, msg |-> msg]

TexFail(kind, e) == [kind |-> kind, err |-> e, tex |-> NoTex, padded |-> FALSE]

U32_BITS == 32

\* u32 >> u8: a shift by 32 or more panics in a debug build and is taken
\* modulo 32 in a release build.  v is a u16 widened to u32.
ShiftRight(v, s, bld) ==
    IF s >= U32_BITS /\ bld = "debug" THEN [kind |-> "panic", v |-> 0]
    ELSE LET m == s % U32_BITS
         IN  [kind |-> "ok", v |-> IF m >= 16 THEN 0 ELSE v \div (2 ^ m)]

\* u8 * u8: overflow panics in a debug build and wraps in a release build.
MulU8(a, b, bld) ==
    IF a * b > 255 /\ bld = "debug" THEN [kind |-> "panic", v |-> 0]
    ELSE [kind |-> "ok", v |-> (a * b) % 256]

\* The slicing of one mip out of the data blob; "panic" when the range leaves
\* the blob or the padding subtraction underflows in a debug build.
SliceMip(header, mip_entry, compression_info, data, bld) ==
    LET start == compression_info.compressed_offset
        end == start + compression_info.compressed_size
        padding == IF header.swizzle_control # 1 THEN 0
                   ELSE mip_entry.uncompressed_size - mip_entry.scanline_length
    IN  IF padding < 0 THEN [kind |-> "panic", data |-> <<>>, padded |-> FALSE]
        ELSE IF end > Len(data) THEN [kind |-> "panic", data |-> <<>>, padded |-> FALSE]
        ELSE [kind |-> "ok",
              data |-> Slice(data, start, end) \o [k \in 1..padding |-> 0],
              padded |-> padding > 0]

\* The level of the mip at sequence index idx: the validation loops run
\* tex_count outer, mipmap_count inner, and idx counts the passes.
MipLevelOf(header, idx) == idx % header.mipmap_count

\* The depth-scaled length a mip must have.
ExpectedLen(mip_data, shifted) == mip_data.entry.uncompressed_size * Max(1, shifted)

\* The validation pass from sequence index idx on: the first mip that fails
\* decides the outcome ("ok", "err" with the gdf error, "panic", "fault",
\* or "mismatch").
RECURSIVE Validate(_, _, _, _, _)
Validate(header, mip_datas, idx, bld, ob) ==
    IF idx >= header.tex_count * header.mipmap_count THEN [kind |-> "ok", err |-> ""]
    ELSE
    LET mip_data == mip_datas[idx + 1]
        img_mip_idx == MipLevelOf(header, idx)
        un == MipData_uncompressed_data(mip_data, bld, ob)
        sh == ShiftRight(header.depth, img_mip_idx, bld)
    IN  IF un.kind # "ok" THEN [kind |-> un.kind, err |-> un.err]
        ELSE IF sh.kind = "panic"
        THEN [kind |-> "panic", err |-> "attempt to shift right with overflow"]
        ELSE IF Len(un.data) # ExpectedLen(mip_data, sh.v)
        THEN [kind |-> "mismatch", err |-> ""]
        ELSE Validate(header, mip_datas, idx + 1, bld, ob)

\* The part of Tex::from_reader after the header: tables, blob, slicing,
\* MipData construction and validation.  p is the position after the header.
Tex_read_body(b, header, p, bld, ob) ==
    LET num_mipmaps == header.mipmap_count * header.tex_count
        p_ci == p + MipEntry_SIZE * num_mipmaps
        p_data == p_ci + CompressionInfo_SIZE * num_mipmaps
    IN  IF ~Have(b, p, MipEntry_SIZE * num_mipmaps) THEN TexFail("err", Error_IO)
        ELSE IF ~Have(b, p_ci, CompressionInfo_SIZE * num_mipmaps)
        THEN TexFail("err", Error_IO)
        ELSE
        LET mip_entries ==
                [k \in 1..num_mipmaps |-> MipEntry_from_reader(b, p + MipEntry_SIZE * (k - 1))]
            compression_infos ==
                [k \in 1..num_mipmaps |->
                    CompressionInfo_from_reader(b, p_ci + CompressionInfo_SIZE * (k - 1))]
            data == Slice(b, p_data, Len(b))
            cap == MulU8(header.tex_count, header.mipmap_count, bld)
            mipmaps == [k \in 1..num_mipmaps |->
                          SliceMip(header, mip_entries[k], compression_infos[k], data, bld)]
            mip_datas == [k \in 1..num_mipmaps |->
                            MipData_new(mip_entries[k], compression_infos[k], mipmaps[k].data)]
            v == Validate(header, mip_datas, 0, bld, ob)
        IN  IF Len(mip_entries) # Len(compression_infos)
            THEN TexFail("err",
                     Error_Internal("mip_entries and compression_infos have different lengths"))
            ELSE IF cap.kind = "panic"
            THEN TexFail("panic", Panic("attempt to multiply with overflow"))
            ELSE IF \E k \in 1..num_mipmaps : mipmaps[k].kind = "panic"
            THEN TexFail("panic", Panic("range end index out of range for slice"))
            ELSE IF v.kind = "mismatch"
            THEN TexFail("err",
                     Error_Internal("Mipmap data size does not match mipmap entry size"))
            ELSE IF v.kind = "err" THEN TexFail("err", Error_GDeflate(v.err))
            ELSE IF v.kind # "ok" THEN TexFail(v.kind, Panic(v.err))
            ELSE [kind |-> "ok", err |-> NoError,
                  tex |-> [header |-> header, mip_datas |-> mip_datas],
                  padded |-> \E k \in 1..num_mipmaps : mipmaps[k].padded]

Tex_from_reader(b, bld, ob) ==
    LET h == TexHeader_from_reader(b)
    IN  IF h.kind = "err" THEN TexFail("err", h.err)
        ELSE Tex_read_body(b, h.hdr, h.pos, bld, ob)

\* The concatenation of f(m) over the mips, in table order.
RECURSIVE ConcatMips(_, _, _)
ConcatMips(mip_datas, k, part) ==
    IF k > Len(mip_datas) THEN <<>>
    ELSE (IF part = "entry" THEN MipEntry_as_bytes(mip_datas[k].entry)
          ELSE IF part = "info" THEN CompressionInfo_as_bytes(mip_datas[k].compression_info)
          ELSE mip_datas[k].texture_data)
         \o ConcatMips(mip_datas, k + 1, part)

\* Tex::as_bytes: header, MipEntry table, CompressionInfo table, mip bytes.
Tex_as_bytes(t) ==
    TexHeader_as_bytes(t.header)
        \o ConcatMips(t.mip_datas, 1, "entry")
        \o ConcatMips(t.mip_datas, 1, "info")
        \o ConcatMips(t.mip_datas, 1, "data")

\* A variant that skips a raw mip without touching it.
RawMipKept(mip_data, curr_comp_offset) == mip_data

\* The "fix header" of a mip that is not compressed: its offset becomes the
\* running sum.
RawMipFixed(mip_data, curr_comp_offset) ==
    [mip_data EXCEPT !.compression_info.compressed_offset = curr_comp_offset]

\* One pass of the batch_decompress loop over mip k (1-based), then the rest.
\* The mips are rewritten in place, so an error leaves the earlier passes done.
\* BatchDecoded is the pass over a mip that is compressed, d being what
\* decompressor.decompress(&mip_data.texture_data) gave.
RECURSIVE BatchFrom(_, _, _, _, _)
RECURSIVE BatchDecoded(_, _, _, _, _, _)
BatchDecoded(mip_datas, k, curr_comp_offset, d, bld, ob) ==
    IF d.kind = "err"
    THEN [kind |-> "err", err |-> Error_GDeflate(d.err), mip_datas |-> mip_datas]
    ELSE IF d.kind # "ok"
    THEN [kind |-> d.kind, err |-> Panic(d.err), mip_datas |-> mip_datas]
    ELSE BatchFrom(
             [mip_datas EXCEPT ![k].compression_info.compressed_offset = curr_comp_offset,
                               ![k].compression_info.compressed_size = Len(d.data),
                               ![k].is_gdeflate = FALSE,
                               ![k].texture_data = d.data],
             k + 1, curr_comp_offset + Len(d.data), bld, ob)

BatchFrom(mip_datas, k, curr_comp_offset, bld, ob) ==
    IF k > Len(mip_datas) THEN [kind |-> "ok", err |-> NoError, mip_datas |-> mip_datas]
    ELSE IF ~mip_datas[k].is_gdeflate
    THEN BatchFrom(
             [mip_datas EXCEPT ![k] = RawMipFixed(mip_datas[k], curr_comp_offset)],
             k + 1, curr_comp_offset + mip_datas[k].compression_info.compressed_size,
             bld, ob)
    ELSE BatchDecoded(mip_datas, k, curr_comp_offset,
                      GDfDecompressor_decompress(mip_datas[k].texture_data, bld, ob),
                      bld, ob)

\* Tex::batch_decompress: the outcome and the Tex as the call leaves it.
BatchResult(t, r) ==
    [kind |-> r.kind, err |-> r.err, tex |-> [header |-> t.header, mip_datas |-> r.mip_datas]]

Tex_batch_decompress(t, bld, ob) == BatchResult(t, BatchFrom(t.mip_datas, 1, 0, bld, ob))

\* ddsfile's DxgiFormat::from_u32: the codes of the DXGI_FORMAT enumeration
\* (0 .. 115 and the three video formats); every other code has no mapping.
DxgiFormatCodes == (0..115) \cup {130, 131, 132}

DxgiFormat_from_u32(code) ==
    IF code \in DxgiFormatCodes THEN [some |-> TRUE, v |-> code]
    ELSE [some |-> FALSE, v |-> 0]

\* A variant that creates the decoder whatever the mips are.
Tex_to_dds_has_compressed_always(mipmaps) == TRUE

\* mipmaps.iter().any(|mip_data| mip_data.is_compressed())
Tex_to_dds_has_compressed(mipmaps) ==
    \E i \in 1..Len(mipmaps) : mipmaps[i].is_gdeflate

DdsOk(t, data, created) ==
    [kind |-> "ok", err |-> NoError, tex |-> t, data |-> data, created |-> created]

DdsFail(t, kind, e, created) ==
    [kind |-> kind, err |-> e, tex |-> t, data |-> <<>>, created |-> created]

\* The loop that fills dds.data, from mip k (1-based) on.  has_decompressor
\* is whether to_dds holds a decoder to lend; created counts the decoder
\* instances made so far (uncompressed_data makes its own when lent none).
\* Tex_to_dds_decoded is the pass over a mip that is compressed, d being
\* what mip_data.uncompressed_data(decompressor.as_mut()) gave.
RECURSIVE Tex_to_dds_data(_, _, _, _, _, _, _, _)
RECURSIVE Tex_to_dds_decoded(_, _, _, _, _, _, _, _, _)
Tex_to_dds_decoded(t, mipmaps, k, has_decompressor, data, created, d, bld, ob) ==
    IF d.kind = "err" THEN DdsFail(t, "err", Error_GDeflate(d.err), created)
    ELSE IF d.kind # "ok" THEN DdsFail(t, d.kind, Panic(d.err), created)
    ELSE Tex_to_dds_data(t, mipmaps, k + 1, has_decompressor, data \o d.data, created,
                         bld, ob)

Tex_to_dds_data(t, mipmaps, k, has_decompressor, data, created, bld, ob) ==
    IF k > Len(mipmaps) THEN DdsOk(t, data, created)
    ELSE IF ~mipmaps[k].is_gdeflate
    THEN Tex_to_dds_data(t, mipmaps, k + 1, has_decompressor,
                         data \o mipmaps[k].texture_data, created, bld, ob)
    ELSE Tex_to_dds_decoded(t, mipmaps, k, has_decompressor, data,
                            IF has_decompressor THEN created ELSE created + 1,
                            MipData_uncompressed_data(mipmaps[k], bld, ob), bld, ob)

\* The body of to_dds once the mips are selected and the decoder decided.
Tex_to_dds_selected(t, mipmaps, has_compressed, bld, ob) ==
    Tex_to_dds_data(t, mipmaps, 1, has_compressed, <<>>,
                    IF has_compressed THEN 1 ELSE 0, bld, ob)

\* Tex::to_dds(mipmap_count).  new_dxgi_ok is the answer of the container
\* library's constructor (Dds::new_dxgi) for the parameters it is given.
Tex_to_dds(t, mipmap_count, new_dxgi_ok, bld, ob) ==
    IF mipmap_count > Len(t.mip_datas)
    THEN DdsFail(t, "err", Error_Internal("mipmap_count is out of range"), 0)
    ELSE IF ~DxgiFormat_from_u32(TexFormat_as_u32(t.header.format)).some
    THEN DdsFail(t, "panic", Panic("called Option::unwrap() on a None value"), 0)
    ELSE IF ~new_dxgi_ok THEN DdsFail(t, "err", Error_Dds, 0)
    ELSE Tex_to_dds_selected(t, Slice(t.mip_datas, 0, mipmap_count),
                             Tex_to_dds_has_compressed(Slice(t.mip_datas, 0, mipmap_count)),
                             bld, ob)
----------------------------------------------------------------------------
(* The inputs tried.  Every family is a set of byte strings built from     *)
(* field values; the bounds below size the families.                       *)

MaxMips == 2        \* mips per texture and textures per file in the raw families

MaxMipLen == 1      \* uncompressed_size of the raw mips

MaxPad == 1         \* unreferenced bytes put before or after the mips

MaxLastTile == 2    \* last_tile_size of the small tile streams

Versions == {11, 12, 27, 28, LegacyVersion, 241106027}

\* Bc7Unorm, Astc4x4Unorm, ForceUint, then codes outside the catalog
FormatsTried == {98, 1026, 2147483647, 0, 100, 1067}

SwizzlesTried == {0, 1, -1, 2}

HeaderBytes(magic, version, depth, b14, b15, format, swizzle_control) ==
    magic \o write_u32(version) \o write_u16(8) \o write_u16(4) \o write_u16(depth)
        \o <<b14, b15>> \o write_u32(format) \o write_i32(swizzle_control)
        \o write_u32(1) \o <<5, 6>> \o write_u16(1800)
        \o (IF HasSwizzleData(version)
            THEN <<9, 10>> \o write_u16(2828) \o write_u16(7) \o write_u16(1)
            ELSE <<>>)

Prefix(b, n) == SubSeq(b, 1, Min(n, Len(b)))

HeaderInputs ==
    {HeaderBytes(MAGIC, v, 1, c[1], c[2], 98, 0) :
        v \in Versions, c \in {<<0, 0>>, <<1, 17>>, <<0, 16>>}}
    \cup {HeaderBytes(MAGIC, v, 1, 0, 0, f, s) :
            v \in {11, 28}, f \in FormatsTried, s \in SwizzlesTried}
    \cup {HeaderBytes(m, v, 1, 0, 0, f, s) :
            m \in {<<84, 69, 88, 1>>, <<116, 69, 88, 0>>}, v \in {11, 28},
            f \in {98, 0}, s \in {0, 1}}
    \cup {Prefix(HeaderBytes(MAGIC, v, 1, 0, 0, 98, 0), n) :
            v \in {11, 28}, n \in {0, 3, 4, 10, 19, 20, 31, 32, 39}}

\* The bytes of raw mip k: distinct, never the tile-compression marker.
MipBytes(k, len) == [j \in 1..len |-> (16 * k + j) % 256]

RECURSIVE Flatten(_)
Flatten(ss) == IF Len(ss) = 0 THEN <<>> ELSE Head(ss) \o Flatten(Tail(ss))

RECURSIVE SumLen(_, _)
SumLen(ss, n) == IF n = 0 THEN 0 ELSE Len(ss[n]) + SumLen(ss, n - 1)

\* A file: the header for (version, depth, tex_count, mipmap_count), one
\* MipEntry and one CompressionInfo per element of sizes / ranges, and the blob.
\* sizes[k] is uncompressed_size, ranges[k] is <<compressed_size, compressed_offset>>.
TexFile(version, depth, tc, mc, swz, sizes, ranges, blob) ==
    HeaderBytes(MAGIC, version, depth,
                IF HasHeaderSize(version) THEN tc ELSE mc,
                IF HasHeaderSize(version) THEN MipEntry_SIZE * mc ELSE tc, 98, swz)
        \o Flatten([k \in 1..Len(sizes) |->
                     write_u32(k) \o write_u32(0) \o write_u32(0) \o write_u32(sizes[k])])
        \o Flatten([k \in 1..Len(ranges) |-> write_u32(ranges[k][1]) \o write_u32(ranges[k][2])])
        \o blob

\* floor(depth / 2^L), at least 1
DepthFactor(depth, L) == Max(1, IF L >= 16 THEN 0 ELSE depth \div (2 ^ L))

Layouts == {"packed", "trailing", "leading", "reversed", "short", "wrongsize"}

\* tc * mc raw mips of uncompressed_size s, laid out in the blob as `layout` says.
RawFile(version, depth, tc, mc, s, layout, pad) ==
    LET n == tc * mc
        mips == [k \in 1..n |-> MipBytes(k, s * DepthFactor(depth, (k - 1) % mc))]
        lead == IF layout = "leading" THEN pad ELSE 0
        total == SumLen(mips, n)
        off(k) == IF layout = "reversed" THEN total - SumLen(mips, k)
                  ELSE lead + SumLen(mips, k - 1)
        order == IF layout = "reversed" THEN [k \in 1..n |-> mips[n + 1 - k]] ELSE mips
        body == [k \in 1..lead |-> 238] \o Flatten(order)
                    \o (IF layout = "trailing" THEN [k \in 1..pad |-> 238] ELSE <<>>)
        blob == IF layout = "short" /\ Len(body) > 0 THEN SubSeq(body, 1, Len(body) - 1)
                ELSE body
    IN  TexFile(version, depth, tc, mc, 0,
                [k \in 1..n |-> IF layout = "wrongsize" THEN s + 1 ELSE s],
                [k \in 1..n |-> <<Len(mips[k]), off(k)>>], blob)

RawInputs ==
    {RawFile(v, d, tc, mc, s, l, MaxPad) :
        v \in {11, 241106027}, d \in {1, 2}, tc \in 1..MaxMips, mc \in 0..MaxMips,
        s \in 0..MaxMipLen, l \in Layouts}

\* Tile streams.
GdfHeader(id, magic, num_tiles, tile_size_idx, last_tile_size) ==
    <<id, magic>> \o write_u16(num_tiles) \o write_u32(tile_size_idx + 4 * last_tile_size)

StoredTile(bytes) == <<0>> \o bytes

FillTile(v, n) == <<1, v, n % 256, (n \div 256) % 256, n \div 65536>>

\* A stream of num_tiles tiles: slot 0 of the table holds the size of the last
\* tile, slot i > 0 the offset of tile i.
TileStreamBytes(id, magic, last_tile_size, tiles) ==
    LET n == Len(tiles)
    IN  GdfHeader(id, magic, n, 1, last_tile_size)
            \o Flatten([i \in 1..n |->
                         write_u32(IF i = 1 THEN Len(tiles[n]) ELSE SumLen(tiles, i - 1))])
            \o Flatten(tiles)

\* A well-formed stream of n tiles whose last tile holds `last` bytes (0: a full tile).
GoodStream(id, magic, n, last) ==
    TileStreamBytes(id, magic, last,
        [i \in 1..n |-> IF i < n THEN FillTile(16 + i, KDEFAULT_TILE_SIZE)
                        ELSE FillTile(32 + i, IF last = 0 THEN KDEFAULT_TILE_SIZE ELSE last)])

GdfInputs ==
    {GoodStream(id, mg, n, last) :
        id \in {4, 5}, mg \in {251, 250}, n \in 0..2, last \in {0, MaxLastTile, 100}}
    \cup UNION {{TileStreamBytes(4, 251, last, <<t>>) :
                    t \in {<<2>>, <<3>>, <<>>, StoredTile(MipBytes(1, last)),
                           StoredTile(MipBytes(1, last + 1)), FillTile(9, last - 1),
                           FillTile(9, KDEFAULT_TILE_SIZE + 1)}} :
                last \in 1..MaxLastTile}
    \cup {GdfHeader(4, 251, 1, 1, 1), Prefix(GdfHeader(4, 251, 0, 1, 0), 7),
          GdfHeader(4, 251, 0, 1, 5), GdfHeader(4, 251, 0, 1, KDEFAULT_TILE_SIZE),
          TileStreamBytes(4, 251, KDEFAULT_TILE_SIZE + 1, <<FillTile(9, 3)>>),
          TileStreamBytes(4, 251, 1, <<FillTile(9, KDEFAULT_TILE_SIZE), <<2>>>>),
          TileStreamBytes(4, 251, 1, <<<<2>>, FillTile(9, 1)>>)}

\* Files whose mips are tile streams ("gz": one stored tile of n bytes,
\* "gzbad": a tile the decoder rejects, "gzmark": a tile that decodes to
\* bytes starting with the marker, "gz2": a full tile and a partial one)
\* or raw bytes ("raw").
MipPayload(kind, k, n) ==
    IF kind = "raw" THEN MipBytes(k, n)
    ELSE IF kind = "gz" THEN TileStreamBytes(4, 251, n, <<StoredTile(MipBytes(k, n))>>)
    ELSE IF kind = "gzbad" THEN TileStreamBytes(4, 251, n, <<<<2>>>>)
    ELSE IF kind = "gzmark"
    THEN TileStreamBytes(4, 251, n + 2, <<StoredTile(<<4, 251>> \o MipBytes(k, n))>>)
    ELSE TileStreamBytes(4, 251, n,
             <<FillTile(16 + k, KDEFAULT_TILE_SIZE), StoredTile(MipBytes(k, n))>>)

MipPlainLen(kind, n) ==
    IF kind = "gzmark" THEN n + 2
    ELSE IF kind = "gz2" THEN KDEFAULT_TILE_SIZE + n
    ELSE n

KindLists ==
    {<<"gz">>, <<"gz", "raw">>, <<"raw", "gz">>, <<"gz", "gz">>, <<"gzbad", "raw">>,
     <<"raw", "gzbad">>, <<"gz", "gzbad">>, <<"gzmark", "raw">>, <<"gz2", "raw">>}

MixedFile(version, kinds, n) ==
    LET m == Len(kinds)
        mips == [k \in 1..m |-> MipPayload(kinds[k], k, n)]
    IN  TexFile(version, 1, 1, m, 0,
                [k \in 1..m |-> MipPlainLen(kinds[k], n)],
                [k \in 1..m |-> <<Len(mips[k]), SumLen(mips, k - 1)>>],
                Flatten(mips))

MixedInputs ==
    {MixedFile(v, ks, n) : v \in {11, 241106027}, ks \in KindLists, n \in 1..MaxLastTile}

\* One mip level more than a u32 has bits, of a volume texture of depth 2: all empty but the last.
DeepLevels == U32_BITS + 1

DeepFile(last_len) ==
    TexFile(11, 2, 1, DeepLevels, 0,
            [k \in 1..DeepLevels |-> IF k = DeepLevels THEN 1 ELSE 0],
            [k \in 1..DeepLevels |-> <<IF k = DeepLevels THEN last_len ELSE 0, 0>>],
            MipBytes(1, last_len))

\* More records than a u8 holds: WideCount textures of WideCount levels each,
\* no mip bytes, the first record declaring one byte.
WideCount == 16

WideFile ==
    HeaderBytes(MAGIC, 11, 1, WideCount, WideCount, 98, 0)
        \o write_u32(0) \o write_u32(0) \o write_u32(0) \o write_u32(1)
        \o [k \in 1..((MipEntry_SIZE + CompressionInfo_SIZE) * WideCount * WideCount
                          - MipEntry_SIZE) |-> 0]

\* A file declaring swizzle_control = 1, whose mip would be zero-padded.
SwizzledFile ==
    HeaderBytes(MAGIC, 11, 1, 1, 1, 98, 1)
        \o write_u32(0) \o write_u32(0) \o write_u32(1) \o write_u32(3)
        \o write_u32(1) \o write_u32(0) \o <<17>>

Inputs ==
    HeaderInputs \cup RawInputs \cup GdfInputs \cup MixedInputs
        \cup {DeepFile(1), DeepFile(2), WideFile, SwizzledFile}

----------------------------------------------------------------------------
(* The state machine: a caller holding `input` runs one of the pipelines.  *)

NoHdrResult == [kind |-> "none", err |-> NoError, pos |-> 0, hdr |-> TexHeader_default]

NoTexResult == [kind |-> "none", err |-> NoError, tex |-> NoTex, padded |-> FALSE]

NoBatchResult == [kind |-> "none", err |-> NoError, tex |-> NoTex, before |-> NoTex]

NoDecResult == DecFail(NoTileStream, "none", "", <<>>, <<>>)

NoDdsResult ==
    [kind |-> "none", err |-> NoError, tex |-> NoTex, data |-> <<>>, created |-> 0,
     mipmap_count |-> 0, before |-> NoTex]

Init ==
    /\ build \in {"debug", "release"}
    /\ oob \in {"fault", "zero"}
    /\ input \in Inputs
    /\ pc = "init"
    /\ hres = NoHdrResult
    /\ hbytes = <<>>
    /\ res = NoTexResult
    /\ tex = NoTex
    /\ bres = NoBatchResult
    /\ out = <<>>
    /\ dres = NoDecResult
    /\ res2 = NoTexResult
    /\ dds = NoDdsResult
    /\ hand = FALSE

\* TexHeader::from_reader(&mut Cursor::new(input))
DoHeaderFromReader ==
    /\ pc = "init"
    /\ hres' = TexHeader_from_reader(input)
    /\ pc' = "hdr"
    /\ UNCHANGED <<build, oob, input, hbytes, res, tex, bres, out, dres, res2, dds, hand>>

\* header.as_bytes()
DoHeaderAsBytes ==
    /\ pc = "hdr"
    /\ hres.kind = "ok"
    /\ hbytes' = TexHeader_as_bytes(hres.hdr)
    /\ pc' = "hdr_written"
    /\ UNCHANGED <<build, oob, input, hres, res, tex, bres, out, dres, res2, dds, hand>>

\* Tex::from_reader(&mut Cursor::new(input))
DoFromReader ==
    /\ pc = "init"
    /\ res' = Tex_from_reader(input, build, oob)
    /\ tex' = res'.tex
    /\ pc' = "parsed"
    /\ UNCHANGED <<build, oob, input, hres, hbytes, bres, out, dres, res2, dds, hand>>

\* The caller holds a Tex: from_reader returned one, and whatever ran on it
\* since has returned.
HoldsTex ==
    \/ pc = "parsed" /\ res.kind = "ok"
    \/ pc = "replaced"
    \/ pc = "batched" /\ bres.kind \in {"ok", "err"}

\* tex.mip_datas[i] = MipData::new(entry, compression_info, payload): the
\* caller puts a tile stream of its own in place of the last mip of the
\* parsed Tex.
DoReplaceMip ==
    /\ pc = "parsed"
    /\ res.kind = "ok"
    /\ \E i \in {Len(tex.mip_datas)} \ {0}, kind \in {"gz", "gzbad"} :
           LET payload == MipPayload(kind, i, 1)
               old == tex.mip_datas[i]
           IN  tex' = [tex EXCEPT !.mip_datas[i] =
                           MipData_new(old.entry,
                                       [old.compression_info EXCEPT
                                            !.compressed_size = Len(payload)],
                                       payload)]
    /\ hand' = TRUE
    /\ pc' = "replaced"
    /\ UNCHANGED <<build, oob, input, hres, hbytes, res, bres, out, dres, res2, dds>>

\* The record of a batch_decompress call: its outcome r and the Tex it ran on.
BatchCall(r, before) ==
    [kind |-> r.kind, err |-> r.err, tex |-> r.tex, before |-> before]

\* tex.batch_decompress()
DoBatchDecompress ==
    /\ HoldsTex
    /\ bres' = BatchCall(Tex_batch_decompress(tex, build, oob), tex)
    /\ tex' = bres'.tex
    /\ pc' = "batched"
    /\ UNCHANGED <<build, oob, input, hres, hbytes, res, out, dres, res2, dds, hand>>

\* tex.as_bytes()
DoAsBytes ==
    /\ HoldsTex
    /\ out' = Tex_as_bytes(tex)
    /\ pc' = "written"
    /\ UNCHANGED <<build, oob, input, hres, hbytes, res, tex, bres, dres, res2, dds, hand>>

\* Tex::from_reader(&mut Cursor::new(bytes)) on the bytes just written
DoReadAgain ==
    /\ pc = "written"
    /\ res2' = Tex_from_reader(out, build, oob)
    /\ pc' = "read_again"
    /\ UNCHANGED <<build, oob, input, hres, hbytes, res, tex, bres, out, dres, dds, hand>>

\* The mip counts a caller asks to_dds for: all the mips, one fewer, one too many.
MipCountsAsked(n) == {n - 1, n, n + 1} \ {-1}

\* The record of a to_dds call: its outcome r, the count asked for and the
\* Tex it ran on.
DdsCall(r, mipmap_count, before) ==
    [kind |-> r.kind, err |-> r.err, tex |-> r.tex, data |-> r.data,
     created |-> r.created, mipmap_count |-> mipmap_count, before |-> before]

\* tex.to_dds(mipmap_count); the container library accepts the parameters
\* or does not
DoToDds ==
    /\ HoldsTex
    /\ \E mipmap_count \in MipCountsAsked(Len(tex.mip_datas)), new_dxgi_ok \in BOOLEAN :
           dds' = DdsCall(Tex_to_dds(tex, mipmap_count, new_dxgi_ok, build, oob),
                          mipmap_count, tex)
    /\ tex' = dds'.tex
    /\ pc' = "dds"
    /\ UNCHANGED <<build, oob, input, hres, hbytes, res, bres, out, dres, res2, hand>>

\* GDfDecompressor::new()?.decompress(input)
DoDecompress ==
    /\ pc = "init"
    /\ dres' = GDfDecompressor_decompress(input, build, oob)
    /\ pc' = "decompressed"
    /\ UNCHANGED <<build, oob, input, hres, hbytes, res, tex, bres, out, res2, dds, hand>>

Next ==
    \/ DoHeaderFromReader
    \/ DoHeaderAsBytes
    \/ DoFromReader
    \/ DoReplaceMip
    \/ DoBatchDecompress
    \/ DoAsBytes
    \/ DoReadAgain
    \/ DoToDds
    \/ DoDecompress

Spec == Init /\ [][Next]_vars
----------------------------------------------------------------------------
(* Properties                                                              *)

NoBatchRan == bres.kind = "none"

AllRaw(t) == \A i \in 1..Len(t.mip_datas) : ~t.mip_datas[i].is_gdeflate

\* C1: for every input from_reader accepts in which no mip is tile-compressed,
\* from_reader followed by as_bytes returns the input byte for byte.
C1_FullRoundTrip ==
    (pc = "written" /\ ~hand /\ NoBatchRan /\ AllRaw(res.tex)) => out = input

\* C2: when TexHeader::from_reader succeeds, TexHeader::as_bytes of the result
\* is the prefix of the input that from_reader consumed, for every version.
C2_HeaderRoundTrip ==
    pc = "hdr_written" => hbytes = SubSeq(input, 1, hres.pos)

\* A header with the tex_count / mipmap_header_size layout and the swizzle
\* data, whose mipmap_header_size is not a multiple of 16, was written back.
C2_Witness ==
    /\ pc = "hdr_written"
    /\ HasSwizzleData(hres.hdr.version)
    /\ hres.hdr.mipmap_header_size % MipEntry_SIZE # 0
    /\ Len(hbytes) = 40

\* C3: Tex::from_reader ends in a fully populated Tex or in a typed Error,
\* for every input; it never aborts.
C3_ParseReturns ==
    pc = "parsed" =>
        \/ res.kind = "ok"
        \/ res.kind = "err" /\ res.err.tag \in ErrorTags

\* C4: in every Tex from_reader returns, the mip at index t * mipmap_count + L
\* has decompressed length uncompressed_size * max(1, floor(depth / 2^L)).
C4_MipLengths ==
    (pc = "parsed" /\ res.kind = "ok") =>
        \A t \in 0..(res.tex.header.tex_count - 1) :
            \A L \in 0..(res.tex.header.mipmap_count - 1) :
                LET m == res.tex.mip_datas[t * res.tex.header.mipmap_count + L + 1]
                IN  Len(MipData_uncompressed_data(m, build, oob).data)
                        = m.entry.uncompressed_size * DepthFactor(res.tex.header.depth, L)

BadMagic(b) == Len(b) >= 4 /\ SubSeq(b, 1, 4) # <<84, 69, 88, 0>>

\* C5: if the first 4 bytes of the input differ from 54 45 58 00, the header
\* parse (and so Tex::from_reader) returns NotTexFile, having consumed exactly
\* those 4 bytes.
C5_BadMagicRejected ==
    /\ (pc = "hdr" /\ BadMagic(input)) =>
            hres.kind = "err" /\ hres.err = Error_NotTexFile /\ hres.pos = 4
    /\ (pc = "parsed" /\ BadMagic(input)) =>
            res.kind = "err" /\ res.err = Error_NotTexFile

\* A file that differs from the magic in its fourth byte only was refused.
C5_Witness ==
    /\ pc = "hdr"
    /\ Len(input) >= 32
    /\ SubSeq(input, 1, 4) = <<84, 69, 88, 1>>
    /\ hres.err.tag = "NotTexFile"

\* The header reaches its format code, and the code is not in the catalog.
UnknownFormat(b) ==
    /\ Len(b) >= 20
    /\ ~BadMagic(b)
    /\ read_u32(b, 16) \notin TexFormatCodes

\* C6: if the format code of the header is not a code of the catalog, the
\* header parse returns UnsupportedTexFormat carrying that code, whatever
\* follows it.
C6_UnknownFormatRejected ==
    /\ (pc = "hdr" /\ UnknownFormat(input)) =>
            hres.kind = "err" /\ hres.err = Error_UnsupportedTexFormat(read_u32(input, 16))
    /\ (pc = "parsed" /\ UnknownFormat(input)) =>
            res.kind = "err" /\ res.err = Error_UnsupportedTexFormat(read_u32(input, 16))

\* A header with an unknown format code and swizzle_control = 1 was refused
\* for its format.
C6_Witness ==
    /\ pc = "hdr"
    /\ UnknownFormat(input)
    /\ Len(input) >= 32
    /\ read_i32(input, 20) = 1
    /\ hres.err.tag = "UnsupportedTexFormat"
    /\ hres.err.code = 0

\* A complete header with the magic and a catalog format, declaring swizzle.
SwizzleDeclared(b) ==
    /\ Len(b) >= 32
    /\ ~BadMagic(b)
    /\ read_u32(b, 16) \in TexFormatCodes
    /\ HasSwizzleData(read_u32(b, 4)) => Len(b) >= 40
    /\ read_i32(b, 20) = 1

\* C7: a header with swizzle_control = 1 fails with Unimplemented; no Tex that
\* from_reader produces has swizzle_control = 1, and none was zero-padded.
C7_SwizzleRejected ==
    /\ (pc = "hdr" /\ SwizzleDeclared(input)) =>
            hres.kind = "err" /\ hres.err = Error_Unimplemented
    /\ (pc = "parsed" /\ SwizzleDeclared(input)) =>
            res.kind = "err" /\ res.err = Error_Unimplemented
    /\ (pc = "parsed" /\ res.kind = "ok") =>
            res.tex.header.swizzle_control # 1 /\ ~res.padded

\* A whole file declaring swizzle, whose mip would have been padded, was refused.
C7_Witness ==
    /\ pc = "parsed"
    /\ SwizzleDeclared(input)
    /\ Len(input) > 32
    /\ res.kind = "err"
    /\ res.err.tag = "Unimplemented"

\* The payload has a framing header, and its id / magic pair is not valid.
BadFrame(b) == Len(b) >= 8 /\ (b[1] # 255 - b[2] \/ b[1] # 4)

\* C8: decompress on a payload whose framing header has id != magic XOR 0xFF or
\* id != 4 returns BadData before any tile is decoded or table slot read.
C8_BadFrameRejected ==
    (pc = "decompressed" /\ BadFrame(input)) =>
        /\ dres.kind = "err"
        /\ dres.err = "BadData"
        /\ dres.calls = <<>>
        /\ dres.reads = <<>>

\* A self-consistent pair with the wrong id, in front of two tiles, was refused.
C8_Witness ==
    /\ pc = "decompressed"
    /\ Len(input) >= 8
    /\ input[1] = 5
    /\ input[2] = 250
    /\ read_u16(input, 2) = 2
    /\ dres.err = "BadData"

\* num_tiles * 65536 - (65536 - last_tile_size if last_tile_size != 0 else 0)
DeclaredSize(ts) ==
    ts.num_tiles * 65536
        - (IF ts.last_tile_size # 0 THEN 65536 - ts.last_tile_size ELSE 0)

\* C9: whenever decompress succeeds, the buffer it returns has the length the
\* framing header declares.
C9_DecompressedLength ==
    (pc = "decompressed" /\ dres.kind = "ok") => Len(dres.data) = DeclaredSize(dres.ts)

\* One tile with last_tile_size = 100 gave 100 bytes.
C9_Witness ==
    /\ pc = "decompressed"
    /\ dres.kind = "ok"
    /\ dres.ts.num_tiles = 1
    /\ dres.ts.last_tile_size = 100
    /\ Len(dres.calls) = 1
    /\ Len(dres.data) = 100

RECURSIVE SumSizes(_, _)
SumSizes(mip_datas, n) ==
    IF n = 0 THEN 0
    ELSE mip_datas[n].compression_info.compressed_size + SumSizes(mip_datas, n - 1)

\* C10: after a successful batch_decompress every compressed_offset is the sum
\* of the compressed_size before it, every compressed_size is the length of
\* the stored bytes, no mip is flagged compressed; a tile-compressed mip holds
\* its decompressed bytes, a raw mip its bytes and size; entries and header
\* are unchanged.
C10_BatchDecompress ==
    (pc = "batched" /\ ~hand /\ bres.kind = "ok") =>
        /\ tex.header = res.tex.header
        /\ Len(tex.mip_datas) = Len(res.tex.mip_datas)
        /\ \A i \in 1..Len(tex.mip_datas) :
            LET m == tex.mip_datas[i]
                old == res.tex.mip_datas[i]
            IN  /\ m.compression_info.compressed_offset = SumSizes(tex.mip_datas, i - 1)
                /\ m.compression_info.compressed_size = Len(m.texture_data)
                /\ ~m.is_gdeflate
                /\ m.entry = old.entry
                /\ old.is_gdeflate =>
                       m.texture_data
                           = GDfDecompressor_decompress(old.texture_data, build, oob).data
                /\ ~old.is_gdeflate =>
                       /\ m.texture_data = old.texture_data
                       /\ m.compression_info.compressed_size
                              = old.compression_info.compressed_size

\* A tile-compressed mip followed by a raw one: the raw mip moved to the
\* offset after the decompressed bytes.
C10_Witness ==
    /\ pc = "batched"
    /\ bres.kind = "ok"
    /\ Len(tex.mip_datas) = 2
    /\ res.tex.mip_datas[1].is_gdeflate
    /\ ~res.tex.mip_datas[2].is_gdeflate
    /\ tex.mip_datas[2].compression_info.compressed_offset = Len(tex.mip_datas[1].texture_data)
    /\ tex.mip_datas[2].compression_info.compressed_offset
           # res.tex.mip_datas[2].compression_info.compressed_offset

\* C11: when batch_decompress succeeded, the bytes as_bytes writes afterwards
\* are accepted by Tex::from_reader again, and the Tex read back has the same
\* number of mips, each holding the bytes that were written for it.
C11_ReadAgain ==
    (pc = "read_again" /\ ~hand /\ bres.kind = "ok") =>
        /\ res2.kind = "ok"
        /\ Len(res2.tex.mip_datas) = Len(tex.mip_datas)
        /\ \A i \in 1..Len(tex.mip_datas) :
               res2.tex.mip_datas[i].texture_data = tex.mip_datas[i].texture_data

\* C12: when batch_decompress returns an error, the Tex is as it was before
\* the call.
C12_BatchAtomic ==
    (pc = "batched" /\ bres.kind = "err") => tex = bres.before

\* The header's format has no counterpart in the container's format set.
FormatUnmapped(t) == TexFormat_as_u32(t.header.format) \notin DxgiFormatCodes

\* C13: to_dds(mip_count) returns an Error value whenever mip_count exceeds the
\* number of mips or the format has no mapping to the container's format set,
\* and does not fail on the range check when mip_count is in range.
C13_ToDdsReturnsError ==
    /\ (pc = "dds" /\ (dds.mipmap_count > Len(dds.before.mip_datas)
                          \/ FormatUnmapped(dds.before))) =>
            dds.kind = "err" /\ dds.err.tag \in ErrorTags
    /\ (pc = "dds" /\ dds.mipmap_count <= Len(dds.before.mip_datas)) =>
            dds.err # Error_Internal("mipmap_count is out of range")

\* C14: the two bytes after depth are (tex_count, mipmap_header_size), with
\* mipmap_count = mipmap_header_size / 16, exactly when version > 11 and
\* version != 190820018, and (mipmap_count, tex_count) otherwise; the four
\* swizzle fields are read exactly when version > 27 and version != 190820018.
C14_LayoutByVersion ==
    (pc = "hdr" /\ hres.kind = "ok") =>
        LET version == input[5] + 256 * input[6] + 65536 * input[7] + 16777216 * input[8]
            h == hres.hdr
        IN  /\ IF version > 11 /\ version # 190820018
               THEN /\ h.tex_count = input[15]
                    /\ h.mipmap_header_size = input[16]
                    /\ h.mipmap_count = input[16] \div 16
               ELSE /\ h.mipmap_count = input[15]
                    /\ h.tex_count = input[16]
            /\ IF version > 27 /\ version # 190820018
               THEN /\ hres.pos = 40
                    /\ h.swizzle_height_depth = input[33]
                    /\ h.swizzle_width = input[34]
                    /\ h.null1 = input[35] + 256 * input[36]
                    /\ h.seven = input[37] + 256 * input[38]
                    /\ h.one = input[39] + 256 * input[40]
               ELSE hres.pos = 32

\* Version 12 took the tex_count / mipmap_header_size branch with a size of 17:
\* one mip entry; and the legacy version took the other branch.
C14_Witness ==
    /\ pc = "hdr"
    /\ hres.kind = "ok"
    /\ hres.hdr.version = 12
    /\ hres.hdr.tex_count = 1
    /\ hres.hdr.mipmap_header_size = 17
    /\ hres.hdr.mipmap_count = 1
    /\ hres.pos = 32

\* What the entropy decoder answered to the i-th call of the log.
DecoderAnswer(i) ==
    LET c == dres.calls[i]
    IN  libdeflate_gdeflate_decompress(InPage(input, c.start, c.nbytes).data, c.capacity)

\* C15: the tiles are decoded in the order 0, 1, ..., each once and with
\* capacity 65536, tile i written at offset i * 65536; the first tile whose
\* decode reports BadData or InsufficientSpace ends the call with that same
\* error and no buffer, and no later tile is decoded.
C15_TilesInOrder ==
    pc = "decompressed" =>
        LET n == Len(dres.calls)
        IN  /\ n <= dres.ts.num_tiles
            /\ \A i \in 1..n :
                   /\ dres.calls[i].tile = i - 1
                   /\ dres.calls[i].capacity = 65536
                   /\ dres.calls[i].output_offset = (i - 1) * 65536
            /\ \A i \in 1..(n - 1) : DecoderAnswer(i).status = "SUCCESS"
            /\ dres.kind = "ok" =>
                   /\ n = dres.ts.num_tiles
                   /\ \A i \in 1..n :
                          LET o == DecoderAnswer(i).out
                              off == (i - 1) * 65536
                              m == Min(Len(o), Len(dres.data) - off)
                          IN  /\ DecoderAnswer(i).status = "SUCCESS"
                              /\ SubSeq(dres.data, off + 1, off + m) = SubSeq(o, 1, m)
            /\ (n > 0 /\ dres.kind # "fault") =>
                   /\ DecoderAnswer(n).status = "BAD_DATA" =>
                          dres.kind = "err" /\ dres.err = "BadData" /\ dres.data = <<>>
                   /\ DecoderAnswer(n).status = "INSUFFICIENT_SPACE" =>
                          /\ dres.kind = "err"
                          /\ dres.err = "InsufficientSpace"
                          /\ dres.data = <<>>

\* A full tile was decoded and written, then the second tile was refused:
\* the call ended with BadData after two decoder calls.
C15_Witness ==
    /\ pc = "decompressed"
    /\ dres.ts.num_tiles = 2
    /\ Len(dres.calls) = 2
    /\ dres.calls[2].output_offset = 65536
    /\ dres.kind = "err"
    /\ dres.err = "BadData"

\* A second witness of the order: both tiles of a two-tile stream decoded.
TwoTilesDecoded ==
    /\ pc = "decompressed"
    /\ dres.kind = "ok"
    /\ Len(dres.calls) = 2
    /\ Len(dres.data) > 65536

\* The payloads of the first n mips, one after the other.
RECURSIVE PayloadsUpTo(_, _)
PayloadsUpTo(mip_datas, n) ==
    IF n = 0 THEN <<>>
    ELSE PayloadsUpTo(mip_datas, n - 1)
            \o (IF mip_datas[n].is_gdeflate
                THEN GDfDecompressor_decompress(mip_datas[n].texture_data, build, oob).data
                ELSE mip_datas[n].texture_data)

\* C16: when to_dds(mip_count) succeeds, the pixel buffer is the first
\* mip_count payloads in ascending order (decompressed bytes for a
\* tile-compressed mip, stored bytes for a raw one), the Tex is unchanged,
\* and at most one decoder instance was created, none when no selected mip
\* is tile-compressed.
C16_ToDdsPayload ==
    (pc = "dds" /\ dds.kind = "ok") =>
        /\ dds.data = PayloadsUpTo(dds.before.mip_datas, dds.mipmap_count)
        /\ tex = dds.before
        /\ dds.created <= 1
        /\ (\A i \in 1..dds.mipmap_count : ~dds.before.mip_datas[i].is_gdeflate) =>
               dds.created = 0

\* Two mips were selected, the first tile-compressed and the second raw, and
\* one decoder was created.
C16_Witness ==
    /\ pc = "dds"
    /\ dds.kind = "ok"
    /\ dds.mipmap_count = 2
    /\ dds.before.mip_datas[1].is_gdeflate
    /\ ~dds.before.mip_datas[2].is_gdeflate
    /\ Len(dds.data) = 2
    /\ dds.created = 1

\* C17: in every Tex reached by from_reader and batch_decompress, a mip is
\* flagged compressed exactly when its stored bytes begin with 04 FB.
C17_FlagMatchesBytes ==
    (~hand /\ HoldsTex) =>
        \A i \in 1..Len(tex.mip_datas) :
            tex.mip_datas[i].is_gdeflate
                <=> (/\ Len(tex.mip_datas[i].texture_data) >= 2
                     /\ SubSeq(tex.mip_datas[i].texture_data, 1, 2) = <<4, 251>>)

\* C18: for every tile, the offset it is written at plus the capacity offered
\* to the decoder does not exceed the length of the output buffer.
C18_OutputInBounds ==
    pc = "decompressed" =>
        \A i \in 1..Len(dres.calls) :
            dres.calls[i].output_offset + dres.calls[i].capacity
                <= TileStream_get_uncompressed_size(dres.ts, build).v

\* C19: every offset-table slot read and every compressed slice handed to the
\* decoder lies within the payload.
C19_ReadsInBounds ==
    pc = "decompressed" =>
        /\ \A i \in 1..Len(dres.reads) : 8 + 4 * dres.reads[i] + 4 <= Len(input)
        /\ \A i \in 1..Len(dres.calls) :
               dres.calls[i].start + dres.calls[i].nbytes <= Len(input)

\* C20: for a framing header that passes is_valid, get_uncompressed_size is
\* computed without underflow, is 0 for num_tiles = 0 and lies in
\* ((num_tiles - 1) * 65536, num_tiles * 65536] otherwise.
C20_SizeInRange ==
    (pc = "decompressed" /\ Len(input) >= 8 /\ TileStream_is_valid(dres.ts)) =>
        LET size == TileStream_get_uncompressed_size(dres.ts, build)
            n == dres.ts.num_tiles
        IN  /\ size.kind = "ok"
            /\ n = 0 => size.v = 0
            /\ n >= 1 => size.v > (n - 1) * 65536 /\ size.v <= n * 65536

\* C21: the arithmetic of the validation pass is exact for every header read:
\* from_reader does not abort on an arithmetic overflow, the Tex it returns
\* holds mipmap_count * tex_count records, and for every level L below
\* mipmap_count the factor computed from depth >> L is
\* max(1, floor(depth / 2^L)).
C21_ExactArithmetic ==
    (pc = "parsed" /\ TexHeader_from_reader(input).kind = "ok") =>
        LET header == TexHeader_from_reader(input).hdr
        IN  /\ res.kind = "panic" =>
                   /\ res.err # Panic("attempt to multiply with overflow")
                   /\ res.err # Panic("attempt to shift right with overflow")
            /\ res.kind = "ok" =>
                   Len(res.tex.mip_datas) = header.mipmap_count * header.tex_count
            /\ \A L \in 0..(header.mipmap_count - 1) :
                   /\ ShiftRight(header.depth, L, build).kind = "ok"
                   /\ Max(1, ShiftRight(header.depth, L, build).v)
                          = DepthFactor(header.depth, L)

====
